---- MODULE Spec2Model ----
(***************************************************************************)
(* A model of skia_gl: an OpenGL window that repaints a Skia canvas at a   *)
(* fixed cadence, either on the event-loop thread or (feature              *)
(* independent_ui) on a dedicated render thread fed by an mpsc channel.    *)
(*   src/src/main.rs     config picker, context creation, event loop       *)
(*   src/src/backend.rs  GlCtx, GlEnv, SkiaEnv, Backend, ui_runtime        *)
(***************************************************************************)
EXTENDS Integers, Sequences, FiniteSets, TLC

VARIABLES
    independent_ui,        \* the cargo feature the build was made with
    configs,               \* the configs the display offers to the picker
    gl_config,             \* Option: the config the picker closure returned (main.rs:40)
    proc,                  \* "running" | "exit0" | "panic": the process
    main_pc,               \* where main() is
    ctx_attempts,          \* the create_context calls made, in order, with outcome
    not_current_gl_context,\* Option: main's not_current_gl_context
    gl_env,                \* Option: the GlEnv behind the Arc
    skia_env,              \* Option: the SkiaEnv (Backend's field / ui_runtime's local)
    window,                \* Option: Backend.window; its value is the redraw-request flag
    frame,                 \* main's frame counter
    previous_frame_start,  \* main's timer
    modifiers,             \* main's modifiers: is the super key down
    wait_until,            \* Option: the ControlFlow::WaitUntil deadline last set
    channel,               \* the mpsc channel: messages sent and not yet received
    channel_age,           \* history: ticks since each message was sent, up to FrameDuration
    receiver_alive,        \* the Receiver has not been dropped
    ui,                    \* ui_runtime's locals: pc, size, frame, resized, previous_frame_start
    now,                   \* the monotonic clock (Instant::now())
    gpu_trace,             \* history: the library calls of the latest step that made any
    activations,           \* history: calls of NotCurrentContext::make_current
    stderr,                \* history: "Error setting vsync" has been printed
    recv_log,              \* history: the last two messages received in one frame interval
    recv_open,             \* history: recv_log is of the interval still running
    last_frame,            \* history: Option, the latest frame presented by ui_runtime
    last_call,             \* history: the GlEnv method called last (API specification)
    exit_by                \* history: Option, the event whose handler called process::exit

vars == <<independent_ui, configs, gl_config, proc, main_pc, ctx_attempts,
          not_current_gl_context, gl_env, skia_env, window, frame,
          previous_frame_start, modifiers, wait_until, channel, channel_age,
          receiver_alive, ui,
          now, gpu_trace, activations, stderr, recv_log, recv_open, last_frame,
          last_call, exit_by>>

(***************************************************************************)
(* Bounds of the model.                                                    *)
(***************************************************************************)
MaxConfigs == 3
MaxSamples == 2
MaxTime == 4
MaxFrame == 11
MaxDualFrame == 1
MaxQueue == 2
MaxApiCalls == 2

(***************************************************************************)
(* Program constants.                                                      *)
(***************************************************************************)
RewindStep == 10
AnimationPeriod == 360
FrameDuration == 1
StencilBits == 8
InitialDim == 2
I32Max == 2147483647

(***************************************************************************)
(* Option<T>: None is the empty sequence, Some(x) the one-element one.     *)
(***************************************************************************)
None == <<>>
Some(x) == <<x>>
Unwrap(o) == o[1]
UnwrapOr(o, d) == IF o = None THEN d ELSE o[1]

Max(a, b) == IF a >= b THEN a ELSE b

\* `x as i32` of a u32, and `x as u32` of an i32 (backend.rs:210, 320, 331):
\* two's complement, 32 bits.
U32AsI32(x) == IF x <= I32Max THEN x ELSE x - I32Max - I32Max - 2
I32AsU32(x) == IF x >= 0 THEN x ELSE x + I32Max + I32Max + 2

\* A subtraction that leaves the counter alone when it would underflow.
SaturatingSubKeep(a, b) == IF a >= b THEN a - b ELSE a

\* usize::saturating_sub (main.rs:147)
SaturatingSub(a, b) == IF a >= b THEN a - b ELSE 0

(***************************************************************************)
(* Configs: what the picker and the canvas adapter read of a glutin Config.*)
(***************************************************************************)
Configs ==
    [supports_transparency : {None, Some(TRUE), Some(FALSE)},
     num_samples : 0 .. MaxSamples,
     stencil_size : {0, StencilBits}]

ConfigSeqs == UNION {[1 .. n -> Configs] : n \in 0 .. MaxConfigs}

\* What the display offers when the whole program runs: one config,
\* transparent, not multisampled, with a stencil buffer.
ProgramConfigSeqs ==
    {<<c>> : c \in {c \in Configs : /\ c.supports_transparency = Some(TRUE)
                                     /\ c.num_samples = 0
                                     /\ c.stencil_size = StencilBits}}

\* The sizes a Resized event may carry (fewer where they queue up).
ResizeSizes ==
    IF independent_ui THEN {<<0, 0>>, <<3, 1>>}
    ELSE {<<0, 0>>, <<0, 3>>, <<1, 0>>, <<3, 1>>}

(***************************************************************************)
(* main.rs:47-56: the closure given to reduce.                             *)
(***************************************************************************)
PickStep(accum, config) ==
    LET transparency_check ==
            UnwrapOr(config.supports_transparency, FALSE)
            /\ ~UnwrapOr(accum.supports_transparency, FALSE)
    IN  IF transparency_check \/ config.num_samples < accum.num_samples
        THEN config
        ELSE accum

\* Iterator::reduce: None on an empty iterator, else the fold from the first.
RECURSIVE Fold(_, _, _)
Fold(accum, cs, i) ==
    IF i > Len(cs) THEN accum ELSE Fold(PickStep(accum, cs[i]), cs, i + 1)

Reduce(cs) == IF Len(cs) = 0 THEN None ELSE Some(Fold(cs[1], cs, 2))

(***************************************************************************)
(* main.rs:81-96: create_context with its two fallbacks.  ok says which of *)
(* the three calls the display would answer with Ok.  The result is the    *)
(* calls made, in order, each with its outcome.                            *)
(***************************************************************************)
Attempt(api, ok) == [api |-> api, ok |-> ok]

CreateContextAllAttempts(ok) ==
    <<Attempt("core", ok.core), Attempt("gles", ok.gles), Attempt("legacy", ok.legacy)>>

CreateContext(ok) ==
    IF ok.core
    THEN <<Attempt("core", TRUE)>>
    ELSE IF ok.gles
         THEN <<Attempt("core", FALSE), Attempt("gles", TRUE)>>
         ELSE <<Attempt("core", FALSE), Attempt("gles", FALSE), Attempt("legacy", ok.legacy)>>

\* The value of the whole expression: the context, or the expect's panic.
CreatedContext(attempts) ==
    LET last == attempts[Len(attempts)]
    IN  IF last.ok THEN Some(last.api) ELSE None

(***************************************************************************)
(* The calls made into glutin, gl and skia_safe are recorded as they are   *)
(* made: a "world" w carries the GlEnv, the SkiaEnv, the calls of the      *)
(* current step, and whether an unwrap/expect has panicked.  A method run  *)
(* after a panic does nothing (the stack is unwinding).                    *)
(***************************************************************************)
Call(t, name, args) == [thread |-> t, call |-> name, args |-> args]

Did(w, t, name, args) == [w EXCEPT !.trace = Append(@, Call(t, name, args))]

(***************************************************************************)
(* backend.rs:27-51: GlCtx.                                                *)
(***************************************************************************)
GlCtx_new(not_current_context) ==
    [not_current_context |-> Some(not_current_context),
     possibly_current_context |-> None]

\* A make_current that reads the not-current context without taking it.
GlCtx_make_current_no_take(self, ok) ==
    IF self.not_current_context # None
    THEN [ctx |-> [self EXCEPT !.possibly_current_context =
                        IF ok THEN self.not_current_context ELSE @],
          activated |-> TRUE,
          panic |-> ~ok]
    ELSE [ctx |-> self, activated |-> FALSE, panic |-> FALSE]

\* ok: whether NotCurrentContext::make_current answers Ok.  take() has moved
\* the context out before the unwrap can panic.
GlCtx_make_current(self, ok) ==
    IF self.not_current_context # None
    THEN [ctx |-> [not_current_context |-> None,
                   possibly_current_context |->
                        IF ok THEN self.not_current_context
                        ELSE self.possibly_current_context],
          activated |-> TRUE,
          panic |-> ~ok]
    ELSE [ctx |-> self, activated |-> FALSE, panic |-> FALSE]

GlCtx_possibly_current_context(self) == self.possibly_current_context

(***************************************************************************)
(* backend.rs:53-115: GlEnv.                                               *)
(***************************************************************************)
GlEnv_new(gl_surface, gl_ctx, config) ==
    [gl_surface |-> gl_surface, gl_ctx |-> gl_ctx, gl_config |-> config]

\* main.rs:100-111: the window surface, created at the window's inner size.
WindowSurface(size) == [width |-> size[1], height |-> size[2], swap_interval |-> None]

GlEnv_make_current(w, t, ok) ==
    IF w.panic THEN w
    ELSE LET r == GlCtx_make_current(w.gl_env.gl_ctx, ok)
             w1 == [w EXCEPT !.gl_env.gl_ctx = r.ctx,
                             !.activations = @ + (IF r.activated THEN 1 ELSE 0),
                             !.panic = r.panic]
         IN  IF r.activated
             THEN Did(w1, t, "NotCurrentContext::make_current", <<>>)
             ELSE w1

GlEnv_load(w, t) ==
    IF w.panic THEN w ELSE Did(w, t, "gl::load_with", <<>>)

\* A set_vsync that unwraps the answer of set_swap_interval.
GlEnv_set_vsync_unwrap(w, t, ok) ==
    IF w.panic THEN w
    ELSE IF GlCtx_possibly_current_context(w.gl_env.gl_ctx) = None
         THEN [w EXCEPT !.panic = TRUE]
         ELSE LET w1 == Did(w, t, "Surface::set_swap_interval", <<1>>)
              IN  IF ok
                  THEN [w1 EXCEPT !.gl_env.gl_surface.swap_interval = Some(1)]
                  ELSE [w1 EXCEPT !.panic = TRUE]

\* ok: whether set_swap_interval answers Ok.
GlEnv_set_vsync(w, t, ok) ==
    IF w.panic THEN w
    ELSE IF GlCtx_possibly_current_context(w.gl_env.gl_ctx) = None
         THEN [w EXCEPT !.panic = TRUE]
         ELSE LET w1 == Did(w, t, "Surface::set_swap_interval", <<1>>)
              IN  IF ok
                  THEN [w1 EXCEPT !.gl_env.gl_surface.swap_interval = Some(1)]
                  ELSE [w1 EXCEPT !.stderr = TRUE]

\* A resize that does not wait for the context to be current.
GlEnv_resize_unguarded(w, t, size) ==
    IF w.panic THEN w
    ELSE Did([w EXCEPT !.gl_env.gl_surface.width = Max(size[1], 1),
                       !.gl_env.gl_surface.height = Max(size[2], 1)],
             t, "Surface::resize", <<Max(size[1], 1), Max(size[2], 1)>>)

GlEnv_resize(w, t, size) ==
    IF w.panic THEN w
    ELSE IF GlCtx_possibly_current_context(w.gl_env.gl_ctx) # None
         THEN Did([w EXCEPT !.gl_env.gl_surface.width = Max(size[1], 1),
                            !.gl_env.gl_surface.height = Max(size[2], 1)],
                  t, "Surface::resize", <<Max(size[1], 1), Max(size[2], 1)>>)
         ELSE w

\* ok: whether Surface::swap_buffers answers Ok.
GlEnv_swap_buffers(w, t, ok) ==
    IF w.panic THEN w
    ELSE IF GlCtx_possibly_current_context(w.gl_env.gl_ctx) # None
         THEN [Did(w, t, "Surface::swap_buffers", <<>>) EXCEPT !.panic = ~ok]
         ELSE w

(***************************************************************************)
(* backend.rs:117-139 and 236-292: SkiaEnv, create_skia_env,               *)
(* create_surface.                                                         *)
(***************************************************************************)
create_surface(size, num_samples, stencil_size) ==
    [size |-> size, num_samples |-> num_samples, stencil_size |-> stencil_size]

create_skia_env(w, t, size, config) ==
    IF w.panic THEN w
    ELSE LET num_samples == config.num_samples
             stencil_size == config.stencil_size
             w1 == Did(w, t, "DirectContext::new_gl", <<>>)
             w2 == Did(w1, t, "BackendRenderTarget::new_gl",
                       <<size[1], size[2], num_samples, stencil_size>>)
         IN  [w2 EXCEPT !.skia_env =
                  Some([surface |-> create_surface(size, num_samples, stencil_size)])]

SkiaEnv_resize(w, t, size, config) ==
    IF w.panic THEN w
    ELSE LET num_samples == config.num_samples
             stencil_size == config.num_samples
             w1 == Did(w, t, "BackendRenderTarget::new_gl",
                       <<size[1], size[2], num_samples, stencil_size>>)
         IN  [w1 EXCEPT !.skia_env =
                  Some([surface |-> create_surface(size, num_samples, stencil_size)])]

\* A frame drawn and never flushed.
Draw_unflushed(w, t, frame_index) ==
    IF w.panic THEN w
    ELSE Did(Did(w, t, "Canvas::clear", <<>>),
             t, "render_frame", <<frame_index % AnimationPeriod>>)

\* canvas.clear, renderer::render_frame(frame % 360, ..), flush_and_submit
\* (backend.rs:225-228 and 335-352).
Draw(w, t, frame_index) ==
    IF w.panic THEN w
    ELSE Did(Did(Did(w, t, "Canvas::clear", <<>>),
                 t, "render_frame", <<frame_index % AnimationPeriod>>),
             t, "flush_and_submit", <<>>)

\* The world a step starts from.
World ==
    [gl_env |-> Unwrap(gl_env), skia_env |-> skia_env, trace |-> <<>>,
     panic |-> FALSE, stderr |-> stderr, activations |-> activations,
     channel |-> channel, channel_age |-> channel_age]

\* What every step that runs backend code writes back.
Commit(w) ==
    /\ gl_env' = Some(w.gl_env)
    /\ skia_env' = w.skia_env
    /\ gpu_trace' = IF w.trace = <<>> THEN gpu_trace ELSE w.trace
    /\ stderr' = w.stderr
    /\ activations' = w.activations
    /\ channel' = w.channel
    /\ channel_age' = w.channel_age

(***************************************************************************)
(* backend.rs:141-234: Backend.                                            *)
(***************************************************************************)
\* A Backend::new that forgets to make the context current.
Backend_new_no_make_current(w, size, ok) ==
    create_skia_env(GlEnv_load(w, "main"), "main", size, w.gl_env.gl_config)

\* Backend::new, without the feature (backend.rs:155-171).
Backend_new(w, size, ok) ==
    create_skia_env(GlEnv_load(GlEnv_make_current(w, "main", ok), "main"),
                    "main", size, w.gl_env.gl_config)

Backend_exit(win) == None

Backend_request_redraw(win) ==
    IF ~independent_ui /\ win # None THEN Some(TRUE) ELSE win

\* A notify_resize that runs the single-thread body whatever the feature.
Backend_notify_resize_direct(w, size) ==
    GlEnv_resize(SkiaEnv_resize(w, "main", <<U32AsI32(size[1]), U32AsI32(size[2])>>,
                                w.gl_env.gl_config),
                 "main", size)

\* A notify_resize that drops the size when the receiver is gone.
Backend_notify_resize_ignore_dead(w, size) ==
    IF ~independent_ui
    THEN GlEnv_resize(SkiaEnv_resize(w, "main", <<U32AsI32(size[1]), U32AsI32(size[2])>>,
                                     w.gl_env.gl_config),
                      "main", size)
    ELSE IF receiver_alive
         THEN [w EXCEPT !.channel = Append(@, size), !.channel_age = Append(@, 0)]
         ELSE w

Backend_notify_resize(w, size) ==
    IF ~independent_ui
    THEN GlEnv_resize(SkiaEnv_resize(w, "main", <<U32AsI32(size[1]), U32AsI32(size[2])>>,
                                     w.gl_env.gl_config),
                      "main", size)
    ELSE IF receiver_alive
         THEN [w EXCEPT !.channel = Append(@, size), !.channel_age = Append(@, 0)]
         ELSE [w EXCEPT !.panic = TRUE]

\* A render that draws the event thread's frame whatever the feature.
Backend_render_any_mode(w, frame_index, ok) ==
    GlEnv_swap_buffers(Draw(w, "main", frame_index), "main", ok)

Backend_render(w, frame_index, ok) ==
    IF ~independent_ui
    THEN GlEnv_swap_buffers(Draw(w, "main", frame_index), "main", ok)
    ELSE w

(***************************************************************************)
(* backend.rs:299-360: ui_runtime.                                         *)
(***************************************************************************)
UiLocals(pc, size, frame_index, resized, start) ==
    [pc |-> pc, size |-> size, frame |-> frame_index, resized |-> resized,
     previous_frame_start |-> start]

UiUnspawned == UiLocals("unspawned", <<0, 0>>, 0, FALSE, 0)

\* backend.rs:303-307
ui_runtime_init(w, size, ok_current, ok_vsync) ==
    create_skia_env(
        GlEnv_set_vsync(GlEnv_load(GlEnv_make_current(w, "render", ok_current), "render"),
                        "render", ok_vsync),
        "render", size, w.gl_env.gl_config)

\* A receive that keeps the first size of an interval.
ui_runtime_recv_first(l, msg) ==
    IF l.resized THEN l
    ELSE [l EXCEPT !.size = <<U32AsI32(msg[1]), U32AsI32(msg[2])>>, !.resized = TRUE]

\* backend.rs:317-324
ui_runtime_recv(l, msg) ==
    [l EXCEPT !.size = <<U32AsI32(msg[1]), U32AsI32(msg[2])>>, !.resized = TRUE]

\* A frame that resizes whether or not a message was received.
ui_runtime_frame_always_resize(w, l, ok) ==
    LET w1 == SkiaEnv_resize(
                  GlEnv_resize(w, "render", <<I32AsU32(l.size[1]), I32AsU32(l.size[2])>>),
                  "render", l.size, w.gl_env.gl_config)
    IN  GlEnv_swap_buffers(Draw(w1, "render", l.frame), "render", ok)

\* backend.rs:330-353
ui_runtime_frame(w, l, ok) ==
    LET w1 == IF l.resized
              THEN SkiaEnv_resize(
                       GlEnv_resize(w, "render", <<I32AsU32(l.size[1]), I32AsU32(l.size[2])>>),
                       "render", l.size, w.gl_env.gl_config)
              ELSE w
    IN  GlEnv_swap_buffers(Draw(w1, "render", l.frame), "render", ok)

\* The last two elements of a sequence.
LastTwo(s) == IF Len(s) > 2 THEN SubSeq(s, Len(s) - 1, Len(s)) ELSE s

(***************************************************************************)
(* The initial state: main() has not yet run.                              *)
(***************************************************************************)
InitCommon ==
    /\ proc = "running"
    /\ ctx_attempts = <<>>
    /\ not_current_gl_context = None
    /\ skia_env = None
    /\ window = None
    /\ frame = 0
    /\ previous_frame_start = 0
    /\ modifiers = FALSE
    /\ wait_until = None
    /\ channel = <<>>
    /\ channel_age = <<>>
    /\ receiver_alive = FALSE
    /\ ui = UiUnspawned
    /\ now = 0
    /\ gpu_trace = <<>>
    /\ activations = 0
    /\ stderr = FALSE
    /\ recv_log = <<>>
    /\ recv_open = FALSE
    /\ last_frame = None
    /\ last_call = None
    /\ exit_by = None

Init ==
    /\ independent_ui \in BOOLEAN
    /\ configs \in ProgramConfigSeqs
    /\ main_pc = "pick"
    /\ gl_config = None
    /\ gl_env = None
    /\ InitCommon

buildVars == <<independent_ui, configs>>
startVars == <<gl_config, ctx_attempts, not_current_gl_context>>
gpuVars == <<gl_env, skia_env, gpu_trace, activations, stderr>>
chanVars == <<channel, channel_age>>
loopVars == <<window, frame, previous_frame_start, modifiers, wait_until>>
uiVars == <<receiver_alive, ui, recv_log, recv_open, last_frame>>

Running == proc = "running"
WindowSize == <<InitialDim, InitialDim>>

(***************************************************************************)
(* main(), up to the event loop.                                           *)
(***************************************************************************)
\* main.rs:40-59: the picker closure; unwrap panics on no config.
MainPick ==
    /\ Running /\ main_pc = "pick"
    /\ gl_config' = Reduce(configs)
    /\ proc' = IF Reduce(configs) = None THEN "panic" ELSE proc
    /\ main_pc' = "create_context"
    /\ UNCHANGED <<buildVars, ctx_attempts, not_current_gl_context, gpuVars, chanVars,
                   loopVars, uiVars, now, last_call, exit_by>>

\* main.rs:81-96
MainCreateContext ==
    /\ Running /\ main_pc = "create_context"
    /\ \E ok \in [core : BOOLEAN, gles : BOOLEAN, legacy : BOOLEAN] :
          /\ ctx_attempts' = CreateContext(ok)
          /\ not_current_gl_context' = CreatedContext(CreateContext(ok))
          /\ proc' = IF CreatedContext(CreateContext(ok)) = None THEN "panic" ELSE proc
    /\ main_pc' = "create_surface"
    /\ UNCHANGED <<buildVars, gl_config, gpuVars, chanVars, loopVars, uiVars, now,
                   last_call, exit_by>>

\* main.rs:98-117: the window surface and GlEnv::new.
MainCreateSurface ==
    /\ Running /\ main_pc = "create_surface"
    /\ gl_env' = Some(GlEnv_new(WindowSurface(WindowSize),
                                GlCtx_new(Unwrap(not_current_gl_context)),
                                Unwrap(gl_config)))
    /\ not_current_gl_context' = None
    /\ main_pc' = "backend_new"
    /\ UNCHANGED <<buildVars, gl_config, ctx_attempts, proc, skia_env, gpu_trace,
                   activations, stderr, chanVars, loopVars, uiVars, now, last_call, exit_by>>

\* main.rs:118-123 with Backend::new (backend.rs:154-191).
MainBackendNew ==
    /\ Running /\ main_pc = "backend_new"
    /\ IF independent_ui
       THEN /\ ui' = UiLocals("start", WindowSize, 0, FALSE, 0)
            /\ receiver_alive' = TRUE
            /\ proc' = proc
            /\ UNCHANGED gpuVars
       ELSE /\ \E ok \in BOOLEAN :
                 LET w == Backend_new(World, WindowSize, ok)
                 IN  /\ Commit(w)
                     /\ proc' = IF w.panic THEN "panic" ELSE proc
            /\ UNCHANGED <<ui, receiver_alive>>
    /\ IF independent_ui THEN UNCHANGED chanVars ELSE TRUE
    /\ window' = Some(FALSE)
    /\ frame' = 0
    /\ previous_frame_start' = now
    /\ modifiers' = FALSE
    /\ main_pc' = "run"
    /\ UNCHANGED <<buildVars, startVars, wait_until, recv_log, recv_open, last_frame,
                   now, last_call, exit_by>>

(***************************************************************************)
(* main.rs:125-168: one call of the event-loop closure per event.  The     *)
(* closure reads the clock once (frame_start), handles the event, then     *)
(* runs the frame timer and sets the next wake.                            *)
(***************************************************************************)
InLoop == Running /\ main_pc = "run"

FrameCap == IF independent_ui THEN MaxDualFrame ELSE MaxFrame

\* A frame that is due as soon as one whole interval has passed.
FrameDueAtLeast(frame_start, start) == frame_start - start >= FrameDuration

\* main.rs:160 and backend.rs:329: the test that a frame is due.
FrameDue(frame_start, start) == frame_start - start > FrameDuration

\* A frame timer that requests the redraw and forgets to reset itself.
FrameTimerNoReset(win) ==
    LET frame_start == now
        due == FrameDue(frame_start, previous_frame_start)
    IN  /\ window' = IF due THEN Backend_request_redraw(win) ELSE win
        /\ previous_frame_start' = previous_frame_start
        /\ wait_until' = Some(previous_frame_start + FrameDuration)

\* main.rs:157-167, with win the window after the event's handler.
FrameTimer(win) ==
    LET frame_start == now
        due == FrameDue(frame_start, previous_frame_start)
    IN  /\ window' = IF due THEN Backend_request_redraw(win) ELSE win
        /\ previous_frame_start' = IF due THEN frame_start ELSE previous_frame_start
        /\ wait_until' = Some((IF due THEN frame_start ELSE previous_frame_start)
                              + FrameDuration)

\* main.rs:147
Rewind(f) == SaturatingSub(f, RewindStep)

\* A handler that drops the window and returns.
ExitReturns ==
    /\ window' = Backend_exit(window)
    /\ proc' = proc
    /\ UNCHANGED <<frame, previous_frame_start, modifiers, wait_until>>

\* main.rs:131-132 and 144-145: backend.exit(); std::process::exit(0)
Exit ==
    /\ window' = Backend_exit(window)
    /\ proc' = "exit0"
    /\ UNCHANGED <<frame, previous_frame_start, modifiers, wait_until>>

\* main.rs:130-133
EvCloseRequested ==
    /\ InLoop
    /\ Exit
    /\ exit_by' = Some("CloseRequested")
    /\ UNCHANGED <<buildVars, startVars, main_pc, gpuVars, chanVars, uiVars, now,
                   last_call>>

\* main.rs:134-137
EvResized ==
    /\ InLoop
    /\ independent_ui => Len(channel) < MaxQueue
    /\ \E size \in ResizeSizes :
          LET w == Backend_notify_resize(World, size)
          IN  /\ Commit(w)
              /\ proc' = IF w.panic THEN "panic" ELSE proc
    /\ FrameTimer(window)
    /\ UNCHANGED <<buildVars, startVars, main_pc, frame, modifiers, uiVars, now,
                   last_call, exit_by>>

\* main.rs:138
EvModifiersChanged ==
    /\ InLoop
    /\ \E super_key \in BOOLEAN : modifiers' = super_key
    /\ FrameTimer(window)
    /\ UNCHANGED <<buildVars, startVars, main_pc, proc, frame, gpuVars, chanVars,
                   uiVars, now, last_call, exit_by>>

\* main.rs:139-149.  The handler reads the key and the modifiers only: a
\* KeyEvent's state (pressed or released) and repeat flag are not looked at.
KeyboardInput(logical_key) ==
    IF modifiers /\ logical_key = "q"
    THEN /\ Exit
         /\ exit_by' = Some("KeyboardInput")
    ELSE /\ frame' = Rewind(frame)
         /\ FrameTimer(Backend_request_redraw(window))
         /\ UNCHANGED <<proc, modifiers, exit_by>>

EvKeyboardInput ==
    /\ InLoop
    /\ \E logical_key \in {"q", "a"} : KeyboardInput(logical_key)
    /\ UNCHANGED <<buildVars, startVars, main_pc, gpuVars, chanVars, uiVars, now,
                   last_call>>

\* main.rs:150-153.  Delivering the event clears the window's redraw request.
EvRedrawRequested ==
    /\ InLoop
    /\ frame < FrameCap
    /\ frame' = frame + 1
    /\ \E ok \in BOOLEAN :
          LET w == Backend_render(World, frame + 1, ok)
          IN  /\ Commit(w)
              /\ proc' = IF w.panic THEN "panic" ELSE proc
    /\ FrameTimer(Some(FALSE))
    /\ UNCHANGED <<buildVars, startVars, main_pc, modifiers, uiVars, now, last_call, exit_by>>

\* main.rs:154 and any event that is not a WindowEvent (a timer wake).
EvOther ==
    /\ InLoop
    /\ FrameTimer(window)
    /\ UNCHANGED <<buildVars, startVars, main_pc, proc, frame, modifiers, gpuVars,
                   chanVars, uiVars, now, last_call, exit_by>>

(***************************************************************************)
(* The render thread (backend.rs:182-184, 299-360).  A panic ends the      *)
(* thread only and drops its Receiver.                                     *)
(***************************************************************************)
UiDead == [ui EXCEPT !.pc = "dead"]

\* backend.rs:303-312
UiStart ==
    /\ Running /\ ui.pc = "start"
    /\ \E ok_current \in BOOLEAN, ok_vsync \in BOOLEAN :
          LET w == ui_runtime_init(World, ui.size, ok_current, ok_vsync)
          IN  /\ Commit(w)
              /\ ui' = IF w.panic THEN UiDead
                       ELSE UiLocals("loop", ui.size, 0, FALSE, now)
              /\ receiver_alive' = ~w.panic
    /\ UNCHANGED <<buildVars, startVars, main_pc, proc, loopVars, recv_log, recv_open,
                   last_frame, now, last_call, exit_by>>

\* backend.rs:314-359: one iteration of the loop.  recv_log holds the
\* messages received in the interval that the latest frame closed, until a
\* message of the next interval arrives.
UiLoop ==
    /\ Running /\ ui.pc = "loop"
    /\ LET frame_start == now
           got == channel # <<>>
           l == IF got THEN ui_runtime_recv(ui, Head(channel)) ELSE ui
           log == IF got
                  THEN LastTwo(Append(IF recv_open THEN recv_log ELSE <<>>, Head(channel)))
                  ELSE recv_log
           open == got \/ recv_open
           w0 == [World EXCEPT !.channel = IF got THEN Tail(@) ELSE @,
                               !.channel_age = IF got THEN Tail(@) ELSE @]
       IN  IF FrameDue(frame_start, l.previous_frame_start)
           THEN \E ok \in BOOLEAN :
                   LET w == ui_runtime_frame(w0, l, ok)
                   IN  /\ Commit(w)
                       /\ ui' = IF w.panic THEN UiDead
                                ELSE [l EXCEPT !.previous_frame_start = frame_start,
                                               !.frame = @ + 1,
                                               !.resized = FALSE]
                       /\ receiver_alive' = ~w.panic
                       /\ recv_log' = IF open THEN log ELSE <<>>
                       /\ recv_open' = FALSE
                       /\ last_frame' =
                            IF w.panic THEN last_frame
                            ELSE Some([at |-> frame_start, index |-> l.frame])
           ELSE /\ ui' = l
                /\ channel' = w0.channel
                /\ channel_age' = w0.channel_age
                /\ recv_log' = log
                /\ recv_open' = open
                /\ UNCHANGED <<gpuVars, receiver_alive, last_frame>>
    /\ UNCHANGED <<buildVars, startVars, main_pc, proc, loopVars, now, last_call, exit_by>>

\* Time passes.  The clock is first read when the event loop is about to
\* start (main.rs:122), and only differences of readings are used: that
\* moment is time 0.
Tick ==
    /\ Running
    /\ main_pc = "run"
    /\ now < MaxTime
    /\ now' = now + 1
    /\ channel_age' = [i \in DOMAIN channel_age |->
                          IF channel_age[i] < FrameDuration THEN channel_age[i] + 1
                          ELSE channel_age[i]]
    /\ UNCHANGED <<buildVars, startVars, main_pc, proc, gpuVars, channel, loopVars,
                   uiVars, last_call, exit_by>>

Next ==
    \/ MainPick
    \/ MainCreateContext
    \/ MainCreateSurface
    \/ MainBackendNew
    \/ EvCloseRequested
    \/ EvResized
    \/ EvModifiersChanged
    \/ EvKeyboardInput
    \/ EvRedrawRequested
    \/ EvOther
    \/ UiStart
    \/ UiLoop
    \/ Tick

Spec == Init /\ [][Next]_vars

(***************************************************************************)
(* The picker alone, over every sequence of configs a display may offer.   *)
(***************************************************************************)
InitPick ==
    /\ independent_ui = FALSE
    /\ configs \in ConfigSeqs
    /\ main_pc = "pick"
    /\ gl_config = None
    /\ gl_env = None
    /\ InitCommon

NextPick == MainPick

SpecPick == InitPick /\ [][NextPick]_vars

(***************************************************************************)
(* GlEnv alone: a client that calls its methods in any order, starting     *)
(* from GlEnv::new.  A panic ends the client.                              *)
(***************************************************************************)
InitGlEnv ==
    /\ independent_ui = FALSE
    /\ configs \in ProgramConfigSeqs
    /\ main_pc = "api"
    /\ gl_config = Some(configs[1])
    /\ gl_env = Some(GlEnv_new(WindowSurface(WindowSize), GlCtx_new("core"), configs[1]))
    /\ InitCommon

InApi == Running /\ main_pc = "api"

ApiCalls == UnwrapOr(last_call, [make_current_calls |-> 0]).make_current_calls

\* The call returns: its effects, the library calls it made, and its name.
ApiReturn(w, method, args) ==
    /\ gl_env' = Some(w.gl_env)
    /\ gpu_trace' = w.trace
    /\ stderr' = w.stderr
    /\ activations' = w.activations
    /\ proc' = IF w.panic THEN "panic" ELSE proc
    /\ last_call' = Some([method |-> method, args |-> args,
                          make_current_calls |->
                              IF method = "make_current" /\ ApiCalls < MaxApiCalls
                              THEN ApiCalls + 1 ELSE ApiCalls])
    /\ UNCHANGED <<buildVars, startVars, main_pc, skia_env, chanVars, loopVars, uiVars,
                   now, exit_by>>

ApiMakeCurrent ==
    /\ InApi
    /\ \E ok \in BOOLEAN : ApiReturn(GlEnv_make_current(World, "main", ok), "make_current", <<>>)

ApiLoad ==
    /\ InApi
    /\ ApiReturn(GlEnv_load(World, "main"), "load", <<>>)

ApiSetVsync ==
    /\ InApi
    /\ \E ok \in BOOLEAN : ApiReturn(GlEnv_set_vsync(World, "main", ok), "set_vsync", <<>>)

ApiResize ==
    /\ InApi
    /\ \E size \in ResizeSizes : ApiReturn(GlEnv_resize(World, "main", size), "resize", size)

ApiSwapBuffers ==
    /\ InApi
    /\ \E ok \in BOOLEAN : ApiReturn(GlEnv_swap_buffers(World, "main", ok), "swap_buffers", <<>>)

NextGlEnv ==
    \/ ApiMakeCurrent
    \/ ApiLoad
    \/ ApiSetVsync
    \/ ApiResize
    \/ ApiSwapBuffers

SpecGlEnv == InitGlEnv /\ [][NextGlEnv]_vars

(***************************************************************************)
(* What the claims are stated in.                                          *)
(***************************************************************************)
IsSizing(c) == c.call \in {"Surface::resize", "BackendRenderTarget::new_gl"}

\* The calls of a trace that create or resize a surface.
SizingCalls(trace) == SelectSeq(trace, IsSizing)

\* A message's size as ui_runtime holds it.
AsSize(msg) == <<U32AsI32(msg[1]), U32AsI32(msg[2])>>

Range(f) == {f[i] : i \in DOMAIN f}

Transparent(c) == UnwrapOr(c.supports_transparency, FALSE)

\* The render thread presented a frame and nothing has been received since.
FramePresented == independent_ui /\ last_frame # None /\ ~recv_open

\* A step of the render loop that changes anything: it takes a message from
\* the channel, or renders a frame, or both.
RenderLoopStep ==
    /\ independent_ui
    /\ ui.pc = "loop"
    /\ ui' # ui \/ Len(channel') < Len(channel)
    /\ UiLoop

\* A step of the event thread in dual-thread mode: only the event thread
\* writes main's locals, ends the process, or sends on the channel.
EventThreadStep ==
    /\ independent_ui
    /\ main_pc = "run"
    /\ \/ <<window, frame, previous_frame_start, modifiers, wait_until>>'
            # <<window, frame, previous_frame_start, modifiers, wait_until>>
       \/ proc' # proc
       \/ Len(channel') > Len(channel)

(***************************************************************************)
(* C1.  Dual-thread mode: the size a presented frame applies to the GL     *)
(* surface and to the canvas adapter is the size of the message received   *)
(* last since the previous presented frame; no other size received in      *)
(* that interval is applied.                                               *)
(***************************************************************************)
C1_LatestResizeWins ==
    (FramePresented /\ recv_log # <<>>) =>
        LET latest == recv_log[Len(recv_log)]
            sizing == SizingCalls(gpu_trace)
        IN  /\ Len(sizing) = 2
            /\ sizing[1].call = "Surface::resize"
            /\ sizing[1].args = <<Max(latest[1], 1), Max(latest[2], 1)>>
            /\ sizing[2].call = "BackendRenderTarget::new_gl"
            /\ <<sizing[2].args[1], sizing[2].args[2]>> = AsSize(latest)
            /\ \A i \in DOMAIN sizing : sizing[i].thread = "render"
            /\ Unwrap(skia_env).surface.size = AsSize(latest)

\* A second or later frame applied the later of two different sizes
\* received since the frame before it.
C1_Witness ==
    /\ FramePresented
    /\ Unwrap(last_frame).index >= 1
    /\ Len(recv_log) = 2
    /\ recv_log[1] # recv_log[2]
    /\ Unwrap(skia_env).surface.size = AsSize(recv_log[2])

(***************************************************************************)
(* C2.  Dual-thread mode: a frame presented one frame interval or more     *)
(* after a Resize message was sent is drawn at that message's size or at   *)
(* the size of a message sent after it.  (A message already received has   *)
(* set the size the frame applies, or a later one has; what the frame can  *)
(* miss are the messages still in the channel.)                            *)
(***************************************************************************)
C2_ResizeLatency ==
    (independent_ui /\ ui.pc = "loop" /\ last_frame # None /\ Unwrap(last_frame).at = now) =>
        \A i \in DOMAIN channel :
            channel_age[i] >= FrameDuration =>
                \E j \in i .. Len(channel) :
                    Unwrap(skia_env).surface.size = AsSize(channel[j])

(***************************************************************************)
(* C3.  No surface is created or resized with a width or height of 0: not  *)
(* the GL swap surface, not the canvas adapter's, in either mode.          *)
(***************************************************************************)
C3_NoZeroSizedSurface ==
    /\ \A i \in DOMAIN gpu_trace :
          IsSizing(gpu_trace[i]) => gpu_trace[i].args[1] >= 1 /\ gpu_trace[i].args[2] >= 1
    /\ gl_env # None =>
          Unwrap(gl_env).gl_surface.width >= 1 /\ Unwrap(gl_env).gl_surface.height >= 1
    /\ skia_env # None =>
          Unwrap(skia_env).surface.size[1] >= 1 /\ Unwrap(skia_env).surface.size[2] >= 1

(***************************************************************************)
(* C4.  Context activation is one-shot: never are both the not-current and *)
(* the current context held; the first make_current that returns moves the *)
(* context from not-current to current; once the context is current no     *)
(* call changes the context state or activates again.                      *)
(***************************************************************************)
C4_AtMostOneHeld ==
    LET c == Unwrap(gl_env).gl_ctx
    IN  ~(c.not_current_context # None /\ c.possibly_current_context # None)

C4_Step ==
    LET c == Unwrap(gl_env).gl_ctx
        d == Unwrap(gl_env').gl_ctx
    IN  /\ activations' <= 1
        /\ c.possibly_current_context # None =>
              d = c /\ activations' = activations
        /\ (Unwrap(last_call').method = "make_current"
            /\ c.not_current_context # None /\ proc' = "running") =>
              /\ d.not_current_context = None
              /\ d.possibly_current_context = c.not_current_context
              /\ activations' = activations + 1

C4_OneShotActivation == []C4_AtMostOneHeld /\ [][C4_Step]_vars

\* make_current has been called a second time on a current context.
C4_Witness ==
    /\ main_pc = "api"
    /\ last_call # None
    /\ Unwrap(last_call).method = "make_current"
    /\ Unwrap(last_call).make_current_calls >= 2
    /\ Unwrap(gl_env).gl_ctx.possibly_current_context = Some("core")
    /\ activations = 1
    /\ proc = "running"

(***************************************************************************)
(* C5.  While the context has not been made current, resize and            *)
(* swap_buffers return without failing and without effect: the GlEnv is    *)
(* unchanged and no call reaches the surface.                              *)
(***************************************************************************)
C5_Step ==
    (Unwrap(gl_env).gl_ctx.possibly_current_context = None
     /\ Unwrap(last_call').method \in {"resize", "swap_buffers"}) =>
        /\ gl_env' = gl_env
        /\ gpu_trace' = <<>>
        /\ activations' = activations
        /\ proc' = "running"

C5_NoOpBeforeReady == [][C5_Step]_vars

\* resize((3, 1)) has returned on a context never made current.
C5_Witness ==
    /\ main_pc = "api"
    /\ last_call # None
    /\ Unwrap(last_call).method = "resize"
    /\ Unwrap(last_call).args = <<3, 1>>
    /\ Unwrap(gl_env).gl_ctx.not_current_context # None
    /\ Unwrap(gl_env).gl_surface.width = InitialDim
    /\ proc = "running"

(***************************************************************************)
(* C6.  Dual-thread mode: every call on the GL context, the GL surface and *)
(* the canvas adapter is made by the render thread; the event thread's     *)
(* handlers make none.                                                     *)
(***************************************************************************)
C6_RenderThreadOwnsGpu ==
    independent_ui =>
        /\ \A i \in DOMAIN gpu_trace : gpu_trace[i].thread = "render"
        /\ (gl_env # None /\ ui.pc \in {"unspawned", "start"}) =>
              /\ Unwrap(gl_env).gl_ctx.possibly_current_context = None
              /\ Unwrap(gl_env).gl_surface = WindowSurface(WindowSize)
              /\ skia_env = None

\* The event thread has handled a resize and a redraw while the render
\* thread has drawn frames.
C6_Witness ==
    /\ independent_ui
    /\ main_pc = "run"
    /\ frame >= 1
    /\ channel # <<>>
    /\ last_frame # None
    /\ \E i \in DOMAIN gpu_trace : gpu_trace[i].call = "Surface::swap_buffers"

(***************************************************************************)
(* C7.  Single-thread mode: a key press that is not the quit combination   *)
(* changes the frame counter from f to f - 10 when f >= 10 and to 0 when   *)
(* f < 10, and requests a redraw.                                          *)
(***************************************************************************)
C7_Step ==
    (~independent_ui /\ EvKeyboardInput /\ proc' = "running") =>
        /\ frame' = IF frame >= 10 THEN frame - 10 ELSE 0
        /\ frame' >= 0
        /\ window' = Some(TRUE)

C8_PickerPolicy ==
    (main_pc # "pick" /\ configs # <<>>) =>
        LET p == Unwrap(gl_config)
        IN  /\ p \in Range(configs)
            /\ (\E c \in Range(configs) : Transparent(c)) => Transparent(p)
            /\ \A c \in Range(configs) :
                  Transparent(c) = Transparent(p) => p.num_samples <= c.num_samples

(***************************************************************************)
(* C9.  Context creation tries core OpenGL, then GLES, then OpenGL 2.1;    *)
(* the first success supplies the context and no later attempt is made;    *)
(* the process panics exactly when all three fail.                         *)
(***************************************************************************)
FallbackOrder == <<"core", "gles", "legacy">>

C9_ContextFallback ==
    main_pc = "create_surface" =>
        LET n == Len(ctx_attempts)
        IN  /\ n \in 1 .. 3
            /\ \A i \in 1 .. n : ctx_attempts[i].api = FallbackOrder[i]
            /\ \A i \in 1 .. n - 1 : ~ctx_attempts[i].ok
            /\ (proc = "panic") <=> (n = 3 /\ \A i \in 1 .. n : ~ctx_attempts[i].ok)
            /\ proc # "panic" =>
                  /\ proc = "running"
                  /\ ctx_attempts[n].ok
                  /\ not_current_gl_context = Some(FallbackOrder[n])

\* Core failed, GLES succeeded and supplies the context; 2.1 was not tried.
C9_Witness ==
    /\ main_pc = "create_surface"
    /\ ctx_attempts = <<Attempt("core", FALSE), Attempt("gles", TRUE)>>
    /\ not_current_gl_context = Some("gles")
    /\ proc = "running"

(***************************************************************************)
(* C10.  The canvas adapter's surface is always one constructed with the   *)
(* sample count and the stencil size of the selected config.               *)
(***************************************************************************)
C10_SurfaceMatchesConfig ==
    skia_env # None =>
        /\ Unwrap(skia_env).surface.num_samples = Unwrap(gl_config).num_samples
        /\ Unwrap(skia_env).surface.stencil_size = Unwrap(gl_config).stencil_size

(***************************************************************************)
(* C11.  In both modes the calls of a frame are made in the order: the     *)
(* pending resize (GL surface, then canvas adapter) if there is one, then  *)
(* clear, the draw calls, flush and submit, swap_buffers.  swap_buffers is *)
(* never called for a frame that was not flushed, and no draw call lies    *)
(* between the flush and the swap.                                         *)
(***************************************************************************)
FrameCalls == {"Canvas::clear", "render_frame", "flush_and_submit", "Surface::swap_buffers"}

C11_FrameOrder ==
    LET n == Len(gpu_trace)
    IN  (\E i \in DOMAIN gpu_trace : gpu_trace[i].call \in FrameCalls) =>
            /\ n \in {4, 6}
            /\ gpu_trace[n - 3].call = "Canvas::clear"
            /\ gpu_trace[n - 2].call = "render_frame"
            /\ gpu_trace[n - 1].call = "flush_and_submit"
            /\ gpu_trace[n].call = "Surface::swap_buffers"
            /\ n = 6 =>
                  /\ independent_ui
                  /\ gpu_trace[1].call = "Surface::resize"
                  /\ gpu_trace[2].call = "BackendRenderTarget::new_gl"
            /\ \A i \in DOMAIN gpu_trace :
                  gpu_trace[i].thread = (IF independent_ui THEN "render" ELSE "main")

\* The render thread has presented a frame that applied a resize; the frame
\* made six calls, from Surface::resize to Surface::swap_buffers.
C11_Witness ==
    /\ independent_ui
    /\ ui.pc = "loop"
    /\ last_frame # None
    /\ Len(gpu_trace) = 6
    /\ gpu_trace[1].call = "Surface::resize"
    /\ gpu_trace[4].call = "render_frame"
    /\ gpu_trace[6].call = "Surface::swap_buffers"

(***************************************************************************)
(* C12.  The handler of a CloseRequested event, and the handler of a key   *)
(* event with key q while the super key is down, end the process with exit *)
(* code 0.  The event leaves the frame counters as they were and renders   *)
(* nothing; once the process has exited no thread takes a step: no frame   *)
(* is rendered or presented, on either thread.                             *)
(***************************************************************************)
C12_Step ==
    /\ (\/ EvCloseRequested
        \/ modifiers /\ window' = None /\ EvKeyboardInput /\ KeyboardInput("q")) =>
          /\ proc' = "exit0"
          /\ frame' = frame
          /\ ui' = ui
          /\ UNCHANGED <<gpuVars, chanVars, last_frame>>
    /\ proc = "exit0" => UNCHANGED vars
    /\ proc' = "exit0" => exit_by' # None

C12_ExitIsFinal == [][C12_Step]_vars

\* The quit key ended the process after frames had been drawn on the event
\* thread, with a redraw still requested.
C12_Witness ==
    /\ ~independent_ui
    /\ proc = "exit0"
    /\ exit_by = Some("KeyboardInput")
    /\ modifiers
    /\ frame >= 1
    /\ previous_frame_start >= 2
    /\ \E i \in DOMAIN gpu_trace : gpu_trace[i].call = "Surface::swap_buffers"

(***************************************************************************)
(* C13.  set_vsync never ends the process or the thread that calls it.     *)
(* When the request for swap interval 1 is refused, a message is logged    *)
(* and nothing else changes: the context stays current, the surface is as  *)
(* it was, and the caller goes on (the canvas adapter is created and the   *)
(* render loop entered).                                                   *)
(***************************************************************************)
C13_Step ==
    (independent_ui /\ UiStart) =>
        LET before == Unwrap(gl_env)
            after == Unwrap(gl_env')
            requested == \E i \in DOMAIN gpu_trace' :
                            gpu_trace'[i].call = "Surface::set_swap_interval"
        IN  /\ proc' = proc
            /\ ui'.pc = "dead" =>
                  /\ ~requested
                  /\ after.gl_ctx.possibly_current_context = None
            /\ requested =>
                  /\ ui'.pc = "loop"
                  /\ skia_env' # None
                  /\ after.gl_ctx.possibly_current_context = before.gl_ctx.not_current_context
                  /\ after.gl_ctx.not_current_context = None
                  /\ \/ /\ after.gl_surface =
                             [before.gl_surface EXCEPT !.swap_interval = Some(1)]
                        /\ stderr' = stderr
                     \/ /\ after.gl_surface = before.gl_surface
                        /\ stderr' = TRUE

C13_VsyncNotFatal == [][C13_Step]_vars

\* The request was refused and logged; the render thread went on to present
\* a frame on a surface whose swap interval was never set.
C13_Witness ==
    /\ independent_ui
    /\ proc = "running"
    /\ ui.pc = "loop"
    /\ stderr
    /\ Unwrap(gl_env).gl_surface.swap_interval = None
    /\ Unwrap(gl_env).gl_ctx.possibly_current_context # None
    /\ last_frame # None

(***************************************************************************)
(* C14.  Dual-thread mode: notify_resize never waits.  While the receiver  *)
(* is alive the message is appended to the channel and the handler         *)
(* returns; when the render thread has died the next Resized event panics  *)
(* the event thread, which ends the process abnormally: the size is        *)
(* neither dropped silently nor sent again.  The handler renders nothing.  *)
(***************************************************************************)
C14_NeverBlocks ==
    (independent_ui /\ InLoop /\ Len(channel) < MaxQueue) => ENABLED EvResized

C14_Step ==
    (independent_ui /\ EvResized) =>
        /\ UNCHANGED <<gpuVars, ui, last_frame, receiver_alive>>
        /\ IF receiver_alive
           THEN /\ proc' = "running"
                /\ Len(channel') = Len(channel) + 1
                /\ SubSeq(channel', 1, Len(channel)) = channel
                /\ channel'[Len(channel')] \in ResizeSizes
           ELSE /\ proc' = "panic"
                /\ channel' = channel

C14_NotifyResize == []C14_NeverBlocks /\ [][C14_Step]_vars

\* The render thread died presenting a frame (swap_buffers failed) after an
\* earlier frame; the next Resized event then ended the process by a panic.
C14_Witness ==
    /\ independent_ui
    /\ main_pc = "run"
    /\ proc = "panic"
    /\ ui.pc = "dead"
    /\ ~receiver_alive
    /\ last_frame # None
    /\ channel = <<>>

(***************************************************************************)
(* C15.  Dual-thread frame pacing.  An iteration of the render loop        *)
(* renders a frame exactly when it is due; the start times of two frames   *)
(* presented one after the other differ by at least one frame interval;    *)
(* an iteration in which no frame is due makes no library call and leaves  *)
(* the surfaces, the frame counter and the frame timer as they were.       *)
(* C15_Iteration takes what "due" means: elapsed is the time from the      *)
(* timer (the start of the frame presented last, or the entry of the loop  *)
(* before the first frame) to the start of the iteration.                  *)
(***************************************************************************)
C15_Iteration(due) ==
    RenderLoopStep =>
        LET rendered == ui'.pc = "dead" \/ ui'.frame = ui.frame + 1
        IN  /\ rendered <=> due
            /\ (rendered /\ ui'.pc = "loop") =>
                  /\ ui'.previous_frame_start = now
                  /\ ui'.previous_frame_start - ui.previous_frame_start >= FrameDuration
                  /\ last_frame' = Some([at |-> now, index |-> ui.frame])
                  /\ gpu_trace'[Len(gpu_trace')].call = "Surface::swap_buffers"
            /\ ~rendered =>
                  /\ UNCHANGED <<gpuVars, last_frame, receiver_alive>>
                  /\ ui'.frame = ui.frame
                  /\ ui'.previous_frame_start = ui.previous_frame_start

\* The claim as stated: a frame is due when at least one frame interval has
\* elapsed since the start of the frame presented last.  (Before the first
\* frame, of which the claim says nothing, due is what the loop takes it
\* to be.)
C15_DueAtOneInterval ==
    [][C15_Iteration(IF last_frame = None
                     THEN now - ui.previous_frame_start > FrameDuration
                     ELSE now - Unwrap(last_frame).at >= FrameDuration)]_vars

\* As amended: a frame is due when more than one frame interval has elapsed.
C15_DueAfterOneInterval ==
    [][C15_Iteration(now - ui.previous_frame_start > FrameDuration)]_vars

\* A second frame has just been presented, more than one interval after the
\* first.
C15_Witness ==
    /\ independent_ui
    /\ ui.pc = "loop"
    /\ last_frame # None
    /\ Unwrap(last_frame).index = 1
    /\ Unwrap(last_frame).at = now
    /\ ui.previous_frame_start = now
    /\ ui.frame = 2

(***************************************************************************)
(* C16.  Single-thread frame driver.  On every call of the event-loop      *)
(* closure that returns, after the event's handler: when the time from the *)
(* timer to the start of the call exceeds the frame interval, a redraw is  *)
(* requested and the timer is set to the start of the call; otherwise the  *)
(* timer is unchanged and the redraw request is what the handler left.     *)
(* Either way the next wake is set to the timer plus the frame interval.   *)
(***************************************************************************)
C16_Step ==
    (/\ ~independent_ui
     /\ EvResized \/ EvModifiersChanged \/ EvKeyboardInput \/ EvRedrawRequested \/ EvOther
     /\ proc' = "running") =>
        LET due == now - previous_frame_start > FrameDuration
        IN  /\ previous_frame_start' = IF due THEN now ELSE previous_frame_start
            /\ wait_until' = Some(previous_frame_start' + FrameDuration)
            /\ due => window' = Some(TRUE)
            /\ ~due =>
                  /\ (EvResized \/ EvModifiersChanged \/ EvOther) => window' = window
                  /\ EvRedrawRequested => window' = Some(FALSE)
                  /\ EvKeyboardInput => window' = Some(TRUE)

C16_FrameTimer == [][C16_Step]_vars

\* After a frame was drawn the timer ran out again: a wake reset it to its
\* own start time, requested a redraw and set the next wake one interval on.
C16_Witness ==
    /\ ~independent_ui
    /\ main_pc = "run"
    /\ proc = "running"
    /\ frame >= 1
    /\ now >= 2 * (FrameDuration + 1)
    /\ previous_frame_start = now
    /\ window = Some(TRUE)
    /\ wait_until = Some(now + FrameDuration)

(***************************************************************************)
(* C17.  Dual-thread mode: the render loop, once entered, is left only     *)
(* when the process ends: as long as the process runs the render thread is *)
(* in its loop, polling the channel and presenting the frames that are due.*)
(***************************************************************************)
C17_RenderLoopRunsUntilExit ==
    (independent_ui /\ skia_env # None /\ proc = "running") => ui.pc = "loop"

(***************************************************************************)
(* C18.  Dual-thread mode: a presented frame resizes the GL surface and    *)
(* recreates the canvas adapter once when a Resize message was received    *)
(* since the frame before it, and otherwise leaves both as they were; the  *)
(* pending-resize flag says whether one was received and every presented   *)
(* frame clears it, so no message is applied by two frames.                *)
(***************************************************************************)
C18_FlagIsPending ==
    (independent_ui /\ ui.pc = "loop") => (ui.resized <=> recv_open)

C18_Step ==
    (ui'.frame = ui.frame + 1 /\ RenderLoopStep) =>
        LET received == recv_open \/ channel # <<>>
            sizing == SizingCalls(gpu_trace')
        IN  /\ ui'.resized = FALSE
            /\ IF received
               THEN /\ Len(sizing) = 2
                    /\ sizing[1].call = "Surface::resize"
                    /\ sizing[2].call = "BackendRenderTarget::new_gl"
               ELSE /\ sizing = <<>>
                    /\ Unwrap(gl_env').gl_surface = Unwrap(gl_env).gl_surface
                    /\ skia_env' = skia_env

C18_ResizeOncePerFrame == []C18_FlagIsPending /\ [][C18_Step]_vars

\* The first frame applied a Resize(3, 1); the second, with no message
\* received since, made the four calls of a frame and no sizing call.
C18_Witness ==
    /\ independent_ui
    /\ ui.pc = "loop"
    /\ last_frame # None
    /\ Unwrap(last_frame).index = 1
    /\ ~recv_open
    /\ recv_log = <<>>
    /\ ~ui.resized
    /\ Len(gpu_trace) = 4
    /\ gpu_trace[4].call = "Surface::swap_buffers"
    /\ Unwrap(gl_env).gl_surface.width = 3
    /\ Unwrap(skia_env).surface.size = <<3, 1>>

(***************************************************************************)
(* C19.  Dual-thread mode: the frame counter that is drawn is the render   *)
(* thread's.  It is 0 until the first frame, each presented frame draws    *)
(* its value and then adds 1 to it, and nothing else changes it; the       *)
(* handlers of the event thread (keys, resizes, redraws) change neither    *)
(* it nor what is drawn: the event thread's counter reaches no draw call.  *)
(***************************************************************************)
C19_DrawnIndex ==
    independent_ui =>
        /\ (ui.pc \in {"unspawned", "start"} \/ (last_frame = None /\ ui.pc = "loop")) =>
              ui.frame = 0
        /\ \A i \in DOMAIN gpu_trace :
              gpu_trace[i].call = "render_frame" =>
                  /\ gpu_trace[i].thread = "render"
                  /\ gpu_trace[i].args =
                        <<(IF ui.pc = "dead" THEN ui.frame ELSE ui.frame - 1)
                          % AnimationPeriod>>

C19_Step ==
    independent_ui =>
        /\ ui'.frame # ui.frame =>
              /\ UiLoop
              /\ ui'.frame = ui.frame + 1
              /\ last_frame' = Some([at |-> now, index |-> ui.frame])
        /\ last_frame' # last_frame => ui'.frame = ui.frame + 1
        /\ EventThreadStep =>
              /\ ui' = ui
              /\ UNCHANGED <<gpuVars, last_frame>>

C19_RenderFrameCounter == []C19_DrawnIndex /\ [][C19_Step]_vars

\* The event thread has handled a redraw, which made its counter 1 and
\* passed it to Backend::render; the frame the render thread presented last
\* drew index 0.
C19_Witness ==
    /\ independent_ui
    /\ ui.pc = "loop"
    /\ ui.frame = 1
    /\ frame = 1
    /\ last_frame # None
    /\ Unwrap(last_frame).index = 0
    /\ \E i \in DOMAIN gpu_trace : gpu_trace[i] = Call("render", "render_frame", <<0>>)

(***************************************************************************)
(* C20.  Initialisation order, in both modes, on the thread that drives    *)
(* GL: make_current comes first, then the loading of the GL functions,     *)
(* then (render thread only) set_vsync, then the creation of the canvas    *)
(* adapter; resizes, draws and swaps come after.  Hence every library call *)
(* other than the activation is made with a current context: resize and    *)
(* swap_buffers never take their do-nothing branch, and set_vsync never    *)
(* fails on a missing context.                                             *)
(***************************************************************************)
Activation == "NotCurrentContext::make_current"

InitCalls ==
    IF independent_ui
    THEN <<Activation, "gl::load_with", "Surface::set_swap_interval",
           "DirectContext::new_gl", "BackendRenderTarget::new_gl">>
    ELSE <<Activation, "gl::load_with", "DirectContext::new_gl",
           "BackendRenderTarget::new_gl">>

C20_ContextCurrent ==
    (gl_env # None /\ main_pc # "api") =>
        LET current == Unwrap(gl_env).gl_ctx.possibly_current_context # None
            names == [i \in DOMAIN gpu_trace |-> gpu_trace[i].call]
        IN  /\ (\E i \in DOMAIN names : names[i] # Activation) =>
                  current /\ activations = 1
            /\ skia_env # None => current
            /\ (\E i \in DOMAIN names :
                    names[i] \in {Activation, "gl::load_with", "Surface::set_swap_interval",
                                  "DirectContext::new_gl"}) =>
                  names \in {InitCalls, <<Activation>>}
            /\ names = <<Activation>> => ~current /\ skia_env = None

C20_Step ==
    LET current == Unwrap(gl_env).gl_ctx.possibly_current_context # None
        did(name) == \E i \in DOMAIN gpu_trace' : gpu_trace'[i].call = name
    IN  /\ (~independent_ui /\ EvResized) => current /\ did("Surface::resize")
        /\ (~independent_ui /\ EvRedrawRequested) => current /\ did("Surface::swap_buffers")
        /\ ((ui'.pc = "dead" \/ ui'.frame = ui.frame + 1) /\ RenderLoopStep) =>
              /\ current
              /\ did("Surface::swap_buffers")
              /\ ui.resized \/ channel # <<>> => did("Surface::resize")
        /\ (independent_ui /\ ui.pc = "start" /\ ui'.pc = "dead" /\ UiStart) =>
              gpu_trace' = <<Call("render", Activation, <<>>)>>

C20_InitOrder == []C20_ContextCurrent /\ [][C20_Step]_vars

\* Single-thread mode: after Backend::new a Resized(3, 1) reached the GL
\* surface and a frame was then drawn and swapped, all on the context that
\* the one activation made current.
C20_Witness ==
    /\ ~independent_ui
    /\ main_pc = "run"
    /\ proc = "running"
    /\ activations = 1
    /\ Unwrap(gl_env).gl_ctx.possibly_current_context # None
    /\ Unwrap(gl_env).gl_surface.width = 3
    /\ frame >= 1
    /\ Len(gpu_trace) = 4
    /\ gpu_trace[4].call = "Surface::swap_buffers"

====
